---- MODULE Spec2Model ----
(***************************************************************************)
(* A model of the client-side PDF-to-Markdown converter of src/src/App.tsx *)
(* (component App): the React state of the converter, the asynchronous     *)
(* handler handleFile with its awaits on the PDF parsing collaborator, the *)
(* page assembler (the inner loop of handleFile) and the Markdown          *)
(* normalizer cleanMarkdown with its seven regular-expression passes.      *)
(*                                                                         *)
(* A string is a sequence of characters; a character is a TLA+ string.     *)
(***************************************************************************)
EXTENDS Integers, Sequences, FiniteSets, TLC

(***************************************************************************)
(* Bounds of the model.                                                    *)
(***************************************************************************)
\* the longest normalizer input, counted in tokens of Tokens
MaxTokens == 3
\* how many times the normalizer is applied in a row to one input
MaxApply == 2
\* how many files the user selects at most
MaxSelections == 2
\* the longest page of PageFiles, in text items
MaxItems == 3
\* the longest document of DocFiles, in pages
MaxPages == 2

(***************************************************************************)
(* Characters and character classes of the regular expressions.            *)
(***************************************************************************)
SP == " "
TAB == "\t"
NL == "\n"

\* [ \t]
SpaceTab == {SP, TAB}

\* \s, on the characters of the model
WS == {SP, TAB, NL}

\* [A-Z]
Upper ==
  {"A", "B", "C", "D", "E", "F", "G", "H", "I", "J", "K", "L", "M",
   "N", "O", "P", "Q", "R", "S", "T", "U", "V", "W", "X", "Y", "Z"}

\* \d
Digit == {"0", "1", "2", "3", "4", "5", "6", "7", "8", "9"}

\* The character class of the bullet pass as it stands in App.tsx, where the
\* glyphs are stored mis-encoded: the class holds the characters U+201A,
\* U+00C4, U+00A2, U+00F3, U+00E8, U+00E3, U+00B6, U+00F1, U+2122, U+00B4 and
\* the hyphen. A character outside ASCII is written by its code point.
BulletClass ==
  {"U+201A", "U+00C4", "U+00A2", "U+00F3", "U+00E8", "U+00E3", "U+00B6",
   "U+00F1", "U+2122", "U+00B4", "-"}

\* the bullet glyph U+2022 of the recognized set
BULLET == "U+2022"

\* {10,} of the heading pass: the characters after the first
HeadingMin == 10

\* {1,6} of the heading-marker passes
MaxHashes == 6

(***************************************************************************)
(* String helpers.                                                         *)
(***************************************************************************)
RECURSIVE RunLen(_, _, _)
\* how many characters of s, from position i on, are in the class S
RunLen(s, i, S) ==
  IF i <= Len(s) /\ s[i] \in S THEN 1 + RunLen(s, i + 1, S) ELSE 0

RECURSIVE RunLenNot(_, _, _)
\* how many characters of s, from position i on, are outside the class S
RunLenNot(s, i, S) ==
  IF i <= Len(s) /\ s[i] \notin S THEN 1 + RunLenNot(s, i + 1, S) ELSE 0

RECURSIVE RunLenBack(_, _, _)
\* how many characters of s, from position i backwards, are in the class S
RunLenBack(s, i, S) ==
  IF i >= 1 /\ s[i] \in S THEN 1 + RunLenBack(s, i - 1, S) ELSE 0

\* ^ under the m flag: position i starts a line
AtLineStart(s, i) == i = 1 \/ s[i - 1] = NL

\* $ under the m flag: position i ends a line
AtLineEnd(s, i) == i > Len(s) \/ s[i] = NL

\* a trim that throws on a string without text: the error stands for the result
TrimThrowing(s) ==
  LET lead == RunLen(s, 1, WS)
      trail == RunLenBack(s, Len(s), WS)
  IN IF lead = Len(s) THEN <<"TypeError">>
     ELSE SubSeq(s, lead + 1, Len(s) - trail)

\* String.prototype.trim
Trim(s) ==
  LET lead == RunLen(s, 1, WS)
      trail == RunLenBack(s, Len(s), WS)
  IN IF lead = Len(s) THEN <<>> ELSE SubSeq(s, lead + 1, Len(s) - trail)

\* n copies of the character c
Repeat(c, n) == [k \in 1..n |-> c]

(***************************************************************************)
(* cleanMarkdown: one operator per replace call, each a left-to-right scan *)
(* that replaces every match (the g flag) and copies everything else.      *)
(***************************************************************************)
RECURSIVE CollapseSpacesFrom(_, _)
CollapseSpacesFrom(s, i) ==
  IF i > Len(s) THEN <<>>
  ELSE LET n == RunLen(s, i, SpaceTab)
       IN IF n > 0
          THEN <<SP>> \o CollapseSpacesFrom(s, i + n)
          ELSE <<s[i]>> \o CollapseSpacesFrom(s, i + 1)

\* the pass left out: the text as it came
CollapseSpacesSkipped(s) == s

\* cleaned.replace(/[ \t]+/g, ' ')
CollapseSpaces(s) == CollapseSpacesFrom(s, 1)

RECURSIVE CollapseNewlinesFrom(_, _)
CollapseNewlinesFrom(s, i) ==
  IF i > Len(s) THEN <<>>
  ELSE LET n == RunLen(s, i, {NL})
       IN IF n >= 3
          THEN <<NL, NL>> \o CollapseNewlinesFrom(s, i + n)
          ELSE <<s[i]>> \o CollapseNewlinesFrom(s, i + 1)

\* cleaned.replace(/\n{3,}/g, '\n\n')
CollapseNewlines(s) == CollapseNewlinesFrom(s, 1)

\* the length of the match of /^[...]\s+/m at position i, 0 when there is none
BulletMatch(s, i) ==
  IF AtLineStart(s, i) /\ s[i] \in BulletClass /\ RunLen(s, i + 1, WS) > 0
  THEN 1 + RunLen(s, i + 1, WS)
  ELSE 0

RECURSIVE BulletsFrom(_, _)
BulletsFrom(s, i) ==
  IF i > Len(s) THEN <<>>
  ELSE LET n == BulletMatch(s, i)
       IN IF n > 0
          THEN <<"-", SP>> \o BulletsFrom(s, i + n)
          ELSE <<s[i]>> \o BulletsFrom(s, i + 1)

\* cleaned.replace(/^[<glyphs>-]\s+/gm, '- ')
Bullets(s) == BulletsFrom(s, 1)

\* the length of the match of /^(\d+)\.\s+/m at position i, 0 when there is none
NumberMatch(s, i) ==
  LET d == RunLen(s, i, Digit)
      w == RunLen(s, i + d + 1, WS)
  IN IF AtLineStart(s, i) /\ d > 0 /\ i + d <= Len(s) /\ s[i + d] = "."
        /\ w > 0
     THEN d + 1 + w
     ELSE 0

RECURSIVE NumbersFrom(_, _)
NumbersFrom(s, i) ==
  IF i > Len(s) THEN <<>>
  ELSE LET n == NumberMatch(s, i)
           d == RunLen(s, i, Digit)
       IN IF n > 0
          THEN SubSeq(s, i, i + d - 1) \o <<".", SP>> \o NumbersFrom(s, i + n)
          ELSE <<s[i]>> \o NumbersFrom(s, i + 1)

\* cleaned.replace(/^(\d+)\.\s+/gm, '$1. ')
Numbers(s) == NumbersFrom(s, 1)

\* the length of the match of /^([A-Z][A-Z\s]{10,})$/m at position i, 0 when
\* there is none: the quantifier is greedy and gives characters back until the
\* position after the match ends a line
HeadingMatch(s, i) ==
  IF AtLineStart(s, i) /\ s[i] \in Upper
  THEN LET m == RunLen(s, i + 1, Upper \cup WS)
           ends == {k \in HeadingMin..m : AtLineEnd(s, i + 1 + k)}
       IN IF ends = {} THEN 0
          ELSE 1 + (CHOOSE k \in ends : \A j \in ends : j <= k)
  ELSE 0

RECURSIVE HeadingsFrom(_, _)
HeadingsFrom(s, i) ==
  IF i > Len(s) THEN <<>>
  ELSE LET n == HeadingMatch(s, i)
       IN IF n > 0
          THEN <<"#", "#", "#", SP>> \o Trim(SubSeq(s, i, i + n - 1))
                 \o HeadingsFrom(s, i + n)
          ELSE <<s[i]>> \o HeadingsFrom(s, i + 1)

\* cleaned.replace(/^([A-Z][A-Z\s]{10,})$/gm, (match) => `### ${match.trim()}`)
Headings(s) == HeadingsFrom(s, 1)

\* the length of the match of /#{1,6}\s/ at position i, 0 when there is none
MarkerMatch(s, i) ==
  LET h == RunLen(s, i, {"#"})
  IN IF h >= 1 /\ h <= MaxHashes /\ i + h <= Len(s) /\ s[i + h] \in WS
     THEN h + 1
     ELSE 0

\* the length of the match of /\n(#{1,6}\s)/ at position i, 0 when there is none
BeforeMatch(s, i) ==
  IF s[i] = NL /\ MarkerMatch(s, i + 1) > 0
  THEN 1 + MarkerMatch(s, i + 1)
  ELSE 0

RECURSIVE BlankBeforeFrom(_, _)
BlankBeforeFrom(s, i) ==
  IF i > Len(s) THEN <<>>
  ELSE LET n == BeforeMatch(s, i)
       IN IF n > 0
          THEN <<NL, NL>> \o SubSeq(s, i + 1, i + n - 1)
                 \o BlankBeforeFrom(s, i + n)
          ELSE <<s[i]>> \o BlankBeforeFrom(s, i + 1)

\* cleaned.replace(/\n(#{1,6}\s)/g, '\n\n$1')
BlankBefore(s) == BlankBeforeFrom(s, 1)

\* the length of the match of /(#{1,6}\s[^\n]+)\n/ at position i, 0 when there
\* is none
AfterMatch(s, i) ==
  LET h == MarkerMatch(s, i)
      r == RunLenNot(s, i + h, {NL})
  IN IF h > 0 /\ r > 0 /\ i + h + r <= Len(s)
     THEN h + r + 1
     ELSE 0

RECURSIVE BlankAfterFrom(_, _)
BlankAfterFrom(s, i) ==
  IF i > Len(s) THEN <<>>
  ELSE LET n == AfterMatch(s, i)
       IN IF n > 0
          THEN SubSeq(s, i, i + n - 2) \o <<NL, NL>>
                 \o BlankAfterFrom(s, i + n)
          ELSE <<s[i]>> \o BlankAfterFrom(s, i + 1)

\* cleaned.replace(/(#{1,6}\s[^\n]+)\n/g, '$1\n\n')
BlankAfter(s) == BlankAfterFrom(s, 1)

\* function cleanMarkdown(text: string): string
cleanMarkdown(s) ==
  Trim(BlankAfter(BlankBefore(Headings(Numbers(Bullets(
    CollapseNewlines(CollapseSpaces(s))))))))

(***************************************************************************)
(* The PDF parsing collaborator and the files a user can select.           *)
(*                                                                         *)
(* A file is [name, type, pages, failAt, failPage, message]: pages is what *)
(* the collaborator yields for it, page by page, each page a sequence of   *)
(* text items [str, y] with y the item's transform[5]; failAt names the    *)
(* call of the collaborator that rejects for this file ("none" when none   *)
(* does), failPage the page it rejects on, message the error's message.    *)
(***************************************************************************)
PdfType == "application/pdf"

Item(str, y) == [str |-> str, y |-> y]

File(name, type, pages, failAt, failPage, message) ==
  [name |-> name, type |-> type, pages |-> pages, failAt |-> failAt,
   failPage |-> failPage, message |-> message]

\* the awaited calls of handleFile, in the order of a run
Ops == {"arrayBuffer", "getDocument", "getPage", "getTextContent"}

(***************************************************************************)
(* The page assembler: the inner loop of handleFile.                       *)
(***************************************************************************)
\* the vertical gap that starts a new paragraph
ParagraphGap == 20

Abs(x) == IF x < 0 THEN 0 - x ELSE x

\* the test without its check that lastY is set
ParagraphBreakUnset(lastY, currentY) ==
  Abs(lastY - currentY) > ParagraphGap

\* if (lastY > 0 && Math.abs(lastY - currentY) > 20)
ParagraphBreak(lastY, currentY) ==
  lastY > 0 /\ Abs(lastY - currentY) > ParagraphGap

RECURSIVE PageLoopFrom(_, _, _, _)
\* one iteration of for (const item of content.items), and the ones after it
PageLoopFrom(items, k, lastY, pageText) ==
  IF k > Len(items) THEN pageText
  ELSE LET currentY == items[k].y
           broken == IF ParagraphBreak(lastY, currentY)
                     THEN pageText \o <<NL, NL>>
                     ELSE pageText
       IN PageLoopFrom(items, k + 1, currentY, broken \o items[k].str \o <<SP>>)

\* let pageText = ""; let lastY = 0; for (const item of content.items) {...}
PageLoop(items) == PageLoopFrom(items, 1, 0, <<>>)

RECURSIVE Decimal(_)
\* `${i}` of a non-negative integer
Decimal(n) ==
  LET d == <<"0", "1", "2", "3", "4", "5", "6", "7", "8", "9">>[(n % 10) + 1]
  IN IF n < 10 THEN <<d>> ELSE Decimal(n \div 10) \o <<d>>

\* the heading numbered from 0
PageHeadingFromZero(i) ==
  <<"#", "#", SP, "P", "a", "g", "e", SP>> \o Decimal(i - 1)

\* `## Page ${i}`
PageHeading(i) == <<"#", "#", SP, "P", "a", "g", "e", SP>> \o Decimal(i)

\* result += `\n\n## Page ${i}\n\n${pageText.trim()}`
AppendPage(result, i, pageText) ==
  result \o <<NL, NL>> \o PageHeading(i) \o <<NL, NL>> \o Trim(pageText)

\* `${result}\n\n---\n\n*Converted ${pdf.numPages} pages in ${processingTime}s
\* with ConvertPDF.pro - 100% Local Processing*`; the fixed text is kept in
\* pieces longer than a character, nothing reads it by character
Trailer(numPages, processingTime) ==
  <<NL, NL, "-", "-", "-", NL, NL, "*Converted ">> \o Decimal(numPages)
    \o <<" pages in ">> \o processingTime
    \o <<"s with ConvertPDF.pro - 100% Local Processing*">>

\* ((Date.now() - startTime) / 1000).toFixed(1): the values the model draws
Times == {<<"0", ".", "0">>, <<"1", ".", "5">>}

\* setError("Please upload a PDF file")
InvalidTypeError == <<"Please upload a PDF file">>

\* `Failed to parse PDF: ${err instanceof Error ? err.message : String(err)}`
ParseError(message) == <<"Failed to parse PDF: ">> \o message

(***************************************************************************)
(* State.                                                                  *)
(***************************************************************************)
VARIABLES
  fileName,    \* useState(""): the name of the file accepted last
  text,        \* useState(""): the displayed output
  loading,     \* useState(false)
  error,       \* useState(""): the displayed error message
  isDragging,  \* useState(false)
  disk,        \* the files the user can pick or drop
  budget,      \* how many selections the user makes at most
  sels,        \* the files selected so far, in order
  convs,       \* the runs of handleFile past the type check, by selection:
               \* [file, pc, i, result, pageText, log]
  failHeld,    \* a parse failure was handled and no file was selected since
  nInput,      \* the argument of the latest direct call of cleanMarkdown
  nOutput,     \* what that call returned
  nApplied     \* how many direct calls have been made

uivars ==
  <<fileName, text, loading, error, isDragging, disk, budget, sels, convs,
    failHeld>>

nvars == <<nInput, nOutput, nApplied>>

vars ==
  <<fileName, text, loading, error, isDragging, disk, budget, sels, convs,
    failHeld, nInput, nOutput, nApplied>>

(***************************************************************************)
(* The files of the model.                                                 *)
(***************************************************************************)
Hello == <<"H", "e", "l", "l", "o">>
World == <<"W", "o", "r", "l", "d">>
Goodbye == <<"G", "o", "o", "d", "b", "y", "e">>

PageHelloWorld == <<Item(Hello, 100), Item(World, 100)>>
PageGoodbye == <<Item(Goodbye, 50)>>
\* a page with an empty text item between two words
PageEmptyItem == <<Item(<<"a">>, 100), Item(<<>>, 100), Item(<<"b">>, 100)>>
\* a page that is one line of capitals
PageCapitals ==
  <<Item(<<"I", "N", "T", "R", "O", "D", "U", "C", "T", "I", "O", "N">>, 100)>>

NameOf(c, ext) == <<c, ".">> \o ext

\* the two-page PDF of the end-to-end scenario
FileA ==
  File(NameOf("a", <<"p", "d", "f">>), PdfType,
       <<PageHelloWorld, PageGoodbye>>, "none", 0, <<>>)

\* a PDF the collaborator cannot load
FileB ==
  File(NameOf("b", <<"p", "d", "f">>), PdfType, <<>>, "getDocument", 0,
       <<"Invalid PDF structure.">>)

\* a one-page PDF
FileC ==
  File(NameOf("c", <<"p", "d", "f">>), PdfType, <<PageGoodbye>>, "none", 0,
       <<>>)

\* a file that is no PDF
FileT == File(NameOf("n", <<"t", "x", "t">>), "text/plain", <<>>, "none", 0, <<>>)

UIFiles == {FileA, FileB, FileC, FileT}

\* the values of transform[5] the model draws
Baselines == {0 - 50, 0, 40, 98, 100}

ItemStrs == {<<"a">>, <<"b">>}

SeqsUpTo(S, n) == UNION {[1..k -> S] : k \in 0..n}

\* one-page PDFs over every item sequence of at most MaxItems items
PageFiles ==
  {File(NameOf("p", <<"p", "d", "f">>), PdfType, <<items>>, "none", 0, <<>>) :
     items \in SeqsUpTo({Item(str, y) : str \in ItemStrs, y \in Baselines},
                        MaxItems)}

DocPages == {PageHelloWorld, PageGoodbye, PageEmptyItem, PageCapitals, <<>>}

\* PDFs of at most MaxPages pages
DocFiles ==
  {File(NameOf("d", <<"p", "d", "f">>), PdfType, pages, "none", 0, <<>>) :
     pages \in SeqsUpTo(DocPages, MaxPages) \ {<<>>}}

\* PDFs on which one call of the collaborator rejects
BadFiles ==
  {File(NameOf("e", <<"p", "d", "f">>), PdfType,
        <<PageHelloWorld, PageGoodbye>>, op, 2, <<"Unexpected server response.">>) :
     op \in Ops}

\* the files of the single-conversion specification
SingleFiles == PageFiles \cup DocFiles \cup BadFiles \cup {FileT}

(***************************************************************************)
(* Initial states.                                                         *)
(***************************************************************************)
InitState ==
  /\ fileName = <<>>
  /\ text = <<>>
  /\ loading = FALSE
  /\ error = <<>>
  /\ isDragging = FALSE
  /\ sels = <<>>
  /\ convs = <<>>
  /\ failHeld = FALSE
  /\ nInput = <<>>
  /\ nOutput = <<>>
  /\ nApplied = 0

\* the page as mounted, a user who selects up to MaxSelections files
Init ==
  /\ InitState
  /\ disk = UIFiles
  /\ budget = MaxSelections

\* the page as mounted, a user who selects one file
InitSingle ==
  /\ InitState
  /\ \E f \in SingleFiles : disk = {f}
  /\ budget = 1

(***************************************************************************)
(* handleFile.                                                             *)
(***************************************************************************)
\* a call of the collaborator, its return and its rejection, as logged
Call(op, page) == <<"call", op, page>>
Return(op, page) == <<"return", op, page>>
Throw(op, page) == <<"throw", op, page>>

\* handleFile without its type check
IsPdfUnchecked(file) == TRUE

\* if (file.type !== "application/pdf")
IsPdf(file) == file.type = PdfType

\* the loop stepping over a page
NextPageSkipping(i) == i + 2

\* i++
NextPage(i) == i + 1

\* the collaborator rejects the call the run c awaits
WillReject(c) ==
  /\ c.file.failAt = c.pc
  /\ c.pc \in {"getPage", "getTextContent"} => c.i = c.file.failPage

\* handleFile with the type check after setFileName, setText("") and
\* setLoading(true): a rejection resets what is displayed
handleFileResettingFirst(file) ==
  /\ Len(sels) < budget
  /\ sels' = Append(sels, file)
  /\ failHeld' = FALSE
  /\ fileName' = file.name
  /\ text' = <<>>
  /\ IF ~IsPdf(file)
     THEN /\ error' = InvalidTypeError
          /\ loading' = FALSE
          /\ UNCHANGED convs
     ELSE /\ error' = <<>>
          /\ loading' = TRUE
          /\ convs' = [k \in DOMAIN convs \cup {Len(sels) + 1} |->
                         IF k \in DOMAIN convs THEN convs[k]
                         ELSE [file |-> file, pc |-> "arrayBuffer", i |-> 0,
                               result |-> <<>>, pageText |-> <<>>,
                               log |-> <<Call("arrayBuffer", 0)>>]]

\* handleFile without setText("") and setError(""): what is displayed stays
handleFileKeepingOutput(file) ==
  /\ Len(sels) < budget
  /\ sels' = Append(sels, file)
  /\ failHeld' = FALSE
  /\ IF ~IsPdf(file)
     THEN /\ error' = InvalidTypeError
          /\ UNCHANGED <<fileName, text, loading, convs>>
     ELSE /\ fileName' = file.name
          /\ loading' = TRUE
          /\ UNCHANGED <<text, error>>
          /\ convs' = [k \in DOMAIN convs \cup {Len(sels) + 1} |->
                         IF k \in DOMAIN convs THEN convs[k]
                         ELSE [file |-> file, pc |-> "arrayBuffer", i |-> 0,
                               result |-> <<>>, pageText |-> <<>>,
                               log |-> <<Call("arrayBuffer", 0)>>]]

\* handleFile(file) up to its first await
handleFile(file) ==
  /\ Len(sels) < budget
  /\ sels' = Append(sels, file)
  /\ failHeld' = FALSE
  /\ IF ~IsPdf(file)
     THEN /\ error' = InvalidTypeError
          /\ UNCHANGED <<fileName, text, loading, convs>>
     ELSE /\ fileName' = file.name
          /\ text' = <<>>
          /\ error' = <<>>
          /\ loading' = TRUE
          /\ convs' = [k \in DOMAIN convs \cup {Len(sels) + 1} |->
                         IF k \in DOMAIN convs THEN convs[k]
                         ELSE [file |-> file, pc |-> "arrayBuffer", i |-> 0,
                               result |-> <<>>, pageText |-> <<>>,
                               log |-> <<Call("arrayBuffer", 0)>>]]

\* onChange={(e) => handleFile(e.target.files?.[0])} with a file chosen
Browse ==
  /\ \E f \in disk : handleFile(f)
  /\ UNCHANGED <<isDragging, disk, budget, nvars>>

\* the same with the dialog cancelled: if (!file) return
BrowseNone == UNCHANGED vars

\* handleDrop
Drop ==
  /\ isDragging' = FALSE
  /\ \E f \in disk : handleFile(f)
  /\ UNCHANGED <<disk, budget, nvars>>

\* handleDragOver
DragOver ==
  /\ isDragging' = TRUE
  /\ UNCHANGED <<fileName, text, loading, error, disk, budget, sels, convs,
                 failHeld, nvars>>

\* handleDragLeave
DragLeave ==
  /\ isDragging' = FALSE
  /\ UNCHANGED <<fileName, text, loading, error, disk, budget, sels, convs,
                 failHeld, nvars>>

\* the run k goes on to await the call op on page page
Await(k, c, op, page) ==
  /\ convs' = [convs EXCEPT ![k] =
                 [c EXCEPT !.pc = op, !.i = page,
                           !.log = Append(c.log, Call(op, page))]]
  /\ UNCHANGED <<fileName, text, loading, error, failHeld>>

\* the run k leaves the loop: cleanMarkdown, the trailer, setText, and
\* setLoading(false) of the finally block
Finish(k, c) ==
  \E t \in Times :
    LET result == cleanMarkdown(c.result) \o Trailer(Len(c.file.pages), t)
    IN /\ convs' = [convs EXCEPT ![k] = [c EXCEPT !.pc = "done", !.result = result]]
       /\ text' = result
       /\ loading' = FALSE
       /\ UNCHANGED <<fileName, error, failHeld>>

\* for (let i = 1; i <= pdf.numPages; i++): the test, at index i
LoopTest(k, c, i) ==
  IF i <= Len(c.file.pages)
  THEN Await(k, c, "getPage", i)
  ELSE Finish(k, [c EXCEPT !.i = i])

\* await file.arrayBuffer() returns: getDocument is called
BufferReturns(k) ==
  LET c == [convs[k] EXCEPT !.log = Append(@, Return("arrayBuffer", 0))]
  IN /\ convs[k].pc = "arrayBuffer"
     /\ ~WillReject(convs[k])
     /\ Await(k, c, "getDocument", 0)
     /\ UNCHANGED <<isDragging, disk, budget, sels, nvars>>

\* await pdfjsLib.getDocument(...).promise returns: the loop is entered
DocumentReturns(k) ==
  LET c == [convs[k] EXCEPT !.log = Append(@, Return("getDocument", 0)),
                            !.result = <<>>]
  IN /\ convs[k].pc = "getDocument"
     /\ ~WillReject(convs[k])
     /\ LoopTest(k, c, 1)
     /\ UNCHANGED <<isDragging, disk, budget, sels, nvars>>

\* await pdf.getPage(i) returns: getTextContent is called
PageReturns(k) ==
  LET c == [convs[k] EXCEPT !.log = Append(@, Return("getPage", convs[k].i))]
  IN /\ convs[k].pc = "getPage"
     /\ ~WillReject(convs[k])
     /\ Await(k, c, "getTextContent", c.i)
     /\ UNCHANGED <<isDragging, disk, budget, sels, nvars>>

\* await page.getTextContent() returns: the page is assembled and appended,
\* and the loop goes on
TextReturns(k) ==
  LET i == convs[k].i
      pageText == PageLoop(convs[k].file.pages[i])
      c == [convs[k] EXCEPT !.log = Append(@, Return("getTextContent", i)),
                            !.pageText = pageText,
                            !.result = AppendPage(@, i, pageText)]
  IN /\ convs[k].pc = "getTextContent"
     /\ ~WillReject(convs[k])
     /\ LoopTest(k, c, NextPage(i))
     /\ UNCHANGED <<isDragging, disk, budget, sels, nvars>>

\* the catch block without the finally block: loading stays as it is
RejectsWithoutFinally(k) ==
  LET c == convs[k]
  IN /\ c.pc \in Ops
     /\ WillReject(c)
     /\ convs' = [convs EXCEPT ![k] =
                    [c EXCEPT !.pc = "failed",
                              !.log = Append(c.log, Throw(c.pc, c.i))]]
     /\ error' = ParseError(c.file.message)
     /\ failHeld' = TRUE
     /\ UNCHANGED <<fileName, text, loading, isDragging, disk, budget, sels,
                    nvars>>

\* the awaited call rejects: the catch block, then the finally block
Rejects(k) ==
  LET c == convs[k]
  IN /\ c.pc \in Ops
     /\ WillReject(c)
     /\ convs' = [convs EXCEPT ![k] =
                    [c EXCEPT !.pc = "failed",
                              !.log = Append(c.log, Throw(c.pc, c.i))]]
     /\ error' = ParseError(c.file.message)
     /\ loading' = FALSE
     /\ failHeld' = TRUE
     /\ UNCHANGED <<fileName, text, isDragging, disk, budget, sels, nvars>>

Next ==
  \/ Browse
  \/ BrowseNone
  \/ Drop
  \/ DragOver
  \/ DragLeave
  \/ \E k \in DOMAIN convs : BufferReturns(k)
  \/ \E k \in DOMAIN convs : DocumentReturns(k)
  \/ \E k \in DOMAIN convs : PageReturns(k)
  \/ \E k \in DOMAIN convs : TextReturns(k)
  \/ \E k \in DOMAIN convs : Rejects(k)

\* the converter with a user who selects files at any time
Spec == Init /\ [][Next]_vars

\* one selection, over every file of SingleFiles
SpecSingle == InitSingle /\ [][Next]_vars

\* the k-th run of handleFile awaits the call op, and the call will return
Pending(k, op) ==
  /\ k \in DOMAIN convs
  /\ convs[k].pc = op
  /\ ~WillReject(convs[k])

\* Every call a run awaits returns or rejects in the end, and the run is then
\* resumed: the promise is settled and its continuation is run. This is weak
\* fairness of each resumption of each run. The two resumptions that can end
\* the run hold the whole of cleanMarkdown; for them the condition is stated
\* on the states: the call does not stay pending for ever. That is what
\* WF_vars(A) says of a resumption A, which is enabled exactly while its call
\* is pending and ends that.
Fairness ==
  \A k \in 1..MaxSelections :
    /\ WF_vars(k \in DOMAIN convs /\ BufferReturns(k))
    /\ WF_vars(k \in DOMAIN convs /\ PageReturns(k))
    /\ WF_vars(k \in DOMAIN convs /\ Rejects(k))
    /\ []<>(~Pending(k, "getDocument"))
    /\ []<>(~Pending(k, "getTextContent"))

\* the converter with calls that all return or reject in the end
SpecFair == Init /\ [][Next]_vars /\ Fairness

(***************************************************************************)
(* The normalizer on its own: an input is drawn, cleanMarkdown is applied  *)
(* to it, and then again to its own output.                                *)
(***************************************************************************)
\* a run of capitals one short of the shortest heading
CapsRun == Repeat("A", HeadingMin)

\* the start of a line of a numbered list
NumberedPrefix == <<"1", ".", SP>>

\* the pieces an input is made of
Tokens ==
  {<<SP>>, <<TAB>>, <<NL>>, <<"#">>, <<"a">>, <<"-">>, <<"1">>, <<".">>,
   <<"A">>, <<"U+00C4">>, <<BULLET>>, CapsRun, NumberedPrefix}

RECURSIVE Flatten(_)
Flatten(ts) == IF ts = <<>> THEN <<>> ELSE Head(ts) \o Flatten(Tail(ts))

Inputs ==
  {Flatten(ts) : ts \in UNION {[1..n -> Tokens] : n \in 0..MaxTokens}}

InitClean ==
  /\ nInput \in Inputs
  /\ nOutput = <<>>
  /\ nApplied = 0
  /\ fileName = <<>>
  /\ text = <<>>
  /\ loading = FALSE
  /\ error = <<>>
  /\ isDragging = FALSE
  /\ disk = {}
  /\ budget = 0
  /\ sels = <<>>
  /\ convs = <<>>
  /\ failHeld = FALSE

\* the first call: cleanMarkdown(input)
CleanCall ==
  /\ nApplied = 0
  /\ nOutput' = cleanMarkdown(nInput)
  /\ nApplied' = 1
  /\ UNCHANGED <<nInput, uivars>>

\* a further call on the output of the call before
CleanAgain ==
  /\ nApplied >= 1
  /\ nApplied < MaxApply
  /\ nInput' = nOutput
  /\ nOutput' = cleanMarkdown(nOutput)
  /\ nApplied' = nApplied + 1
  /\ UNCHANGED uivars

NextClean == CleanCall \/ CleanAgain

SpecClean == InitClean /\ [][NextClean]_vars

(***************************************************************************)
(* Vocabulary of the properties.                                           *)
(***************************************************************************)
\* s holds a run of three newlines
HasTripleNewline(s) ==
  \E i \in 1..(Len(s) - 2) : s[i] = NL /\ s[i + 1] = NL /\ s[i + 2] = NL

\* pat stands in s at position i
OccursAt(s, pat, i) ==
  /\ i + Len(pat) - 1 <= Len(s)
  /\ \A j \in 1..Len(pat) : s[i + j - 1] = pat[j]

\* the first position from i on where pat stands in s, 0 when there is none
FindFrom(s, pat, i) ==
  LET at == {p \in i..(Len(s) - Len(pat) + 1) : OccursAt(s, pat, p)}
  IN IF at = {} THEN 0 ELSE CHOOSE p \in at : \A q \in at : p <= q

RECURSIVE InOrderFrom(_, _, _, _)
\* parts[n], parts[n + 1], ... stand in s from position i on, one after the
\* other without overlap
InOrderFrom(s, parts, n, i) ==
  IF n > Len(parts) THEN TRUE
  ELSE LET p == FindFrom(s, parts[n], i)
       IN p # 0 /\ InOrderFrom(s, parts, n + 1, p + Len(parts[n]))

InOrder(s, parts) == InOrderFrom(s, parts, 1, 1)

\* the lines of s: the pieces between its newlines
LineStarts(s) == {i \in 1..(Len(s) + 1) : AtLineStart(s, i)}
LineFrom(s, i) == SubSeq(s, i, i + RunLenNot(s, i, {NL}) - 1)
Lines(s) == {LineFrom(s, i) : i \in LineStarts(s)}

Lower ==
  {"a", "b", "c", "d", "e", "f", "g", "h", "i", "j", "k", "l", "m",
   "n", "o", "p", "q", "r", "s", "t", "u", "v", "w", "x", "y", "z"}

\* the runs of handleFile that await the collaborator
Running == {k \in DOMAIN convs : convs[k].pc \in Ops}

\* this step is the selection of a file whose type is not application/pdf
RejectionStep ==
  /\ Len(sels') = Len(sels) + 1
  /\ sels'[Len(sels')].type # PdfType

(***************************************************************************)
(* C1: the normalizer is idempotent: cleanMarkdown applied to its own      *)
(* output returns that output unchanged.                                   *)
(***************************************************************************)
C1_Idempotent == nApplied >= 2 => nOutput = nInput

(***************************************************************************)
(* C2: no output of cleanMarkdown holds three or more newlines in a row;   *)
(* in particular no document a conversion displays does.                   *)
(***************************************************************************)
C2_NoTripleNewline ==
  /\ nApplied >= 1 => ~HasTripleNewline(nOutput)
  /\ \A k \in DOMAIN convs :
       convs[k].pc = "done" => ~HasTripleNewline(convs[k].result)

(***************************************************************************)
(* C3: after the selection of a file that is no PDF the displayed output   *)
(* is empty, whatever it was before.                                       *)
(***************************************************************************)
C3_RejectionClearsOutput == [][RejectionStep => text' = <<>>]_vars

(***************************************************************************)
(* C4: the selection of a file that is no PDF sets the invalid-file-type   *)
(* error and calls the parsing collaborator not once: no run of handleFile *)
(* is started in that step, and no run ever belongs to such a selection.   *)
(***************************************************************************)
C4_RejectionWithoutParsing ==
  /\ [][RejectionStep => (error' = InvalidTypeError /\ convs' = convs)]_vars
  /\ [](\A k \in DOMAIN convs : sels[k].type = PdfType)

\* a file that is no PDF was selected while a conversion was awaiting the
\* collaborator, and the error is displayed
C4_Witness ==
  /\ sels # <<>>
  /\ sels[Len(sels)].type # PdfType
  /\ Len(sels) \notin DOMAIN convs
  /\ error = InvalidTypeError
  /\ Running # {}

(***************************************************************************)
(* C5: at most one conversion is in progress at any time.                  *)
(***************************************************************************)
C5_OneConversionAtATime == Cardinality(Running) <= 1

(***************************************************************************)
(* C6: from the handling of a parse failure until the next selection of a  *)
(* file the displayed output is empty and the error message is not.        *)
(***************************************************************************)
C6_FailureLeavesOutputEmpty == failHeld => (text = <<>> /\ error # <<>>)

(***************************************************************************)
(* C7: within one conversion the pages are requested one after the other:  *)
(* getPage(1), its text content, getPage(2), its text content, ..., each   *)
(* call made only after the call before it returned, and a conversion that *)
(* ends well has requested every page of 1..pageCount exactly once.        *)
(***************************************************************************)
RECURSIVE SequentialLog(_, _)
\* the calls and returns of a strictly sequential retrieval of pages p..n
SequentialLog(p, n) ==
  IF p > n THEN <<>>
  ELSE <<Call("getPage", p), Return("getPage", p),
         Call("getTextContent", p), Return("getTextContent", p)>>
         \o SequentialLog(p + 1, n)

\* the calls and returns of log that concern pages
PageEvents(log) ==
  SelectSeq(log, LAMBDA e : e[1] \in {"call", "return"}
                            /\ e[2] \in {"getPage", "getTextContent"})

IsPrefix(a, b) == Len(a) <= Len(b) /\ a = SubSeq(b, 1, Len(a))

C7_PagesInSequence ==
  \A k \in DOMAIN convs :
    LET c == convs[k]
        want == SequentialLog(1, Len(c.file.pages))
    IN /\ IsPrefix(PageEvents(c.log), want)
       /\ c.pc = "done" => PageEvents(c.log) = want

\* a conversion of a PDF of two pages or more has ended well while another
\* one was under way
C7_Witness ==
  \E k \in DOMAIN convs :
    /\ convs[k].pc = "done"
    /\ Len(convs[k].file.pages) >= 2
    /\ Running # {}

(***************************************************************************)
(* C8: the output of a conversion that ends well holds the heading         *)
(* "## Page n" for every n of 1..pageCount, in increasing order of n, and  *)
(* the assembled text of page n after heading n and before heading n + 1.  *)
(***************************************************************************)
\* the heading of page n
HeadingText(n) == <<"#", "#", SP, "P", "a", "g", "e", SP>> \o Decimal(n)

\* pageText.trim() of page n of file
Assembled(file, n) == Trim(PageLoop(file.pages[n]))

RECURSIVE HeadingsAndTexts(_, _)
\* heading n, text n, heading n + 1, text n + 1, ...
HeadingsAndTexts(file, n) ==
  IF n > Len(file.pages) THEN <<>>
  ELSE <<HeadingText(n), Assembled(file, n)>> \o HeadingsAndTexts(file, n + 1)

C8_HeadingsAndTextsInOrder ==
  \A k \in DOMAIN convs :
    convs[k].pc = "done" =>
      InOrder(convs[k].result, HeadingsAndTexts(convs[k].file, 1))

\* every line of t holds letters and single spaces only, every line that is
\* not empty holds a lowercase letter, and no line but the last is followed
\* by more than one empty line
PlainText(t) ==
  /\ \A i \in 1..Len(t) : t[i] \in Upper \cup Lower \cup {SP, NL}
  /\ \A i \in 1..(Len(t) - 1) : ~(t[i] = SP /\ t[i + 1] = SP)
  /\ ~HasTripleNewline(t)
  /\ \A l \in Lines(t) : l # <<>> => \E i \in 1..Len(l) : l[i] \in Lower

RECURSIVE HeadingsAndPlainTexts(_, _)
\* the same with the text of a page kept only where it is plain
HeadingsAndPlainTexts(file, n) ==
  IF n > Len(file.pages) THEN <<>>
  ELSE <<HeadingText(n),
         IF PlainText(Assembled(file, n)) THEN Assembled(file, n) ELSE <<>>>>
         \o HeadingsAndPlainTexts(file, n + 1)

\* C8 as amended: the headings "## Page n" stand in the output in increasing
\* order of n for every n of 1..pageCount, and the assembled text of page n
\* stands after heading n and before heading n + 1 whenever it is plain
C8_HeadingsAndPlainTextsInOrder ==
  \A k \in DOMAIN convs :
    convs[k].pc = "done" =>
      InOrder(convs[k].result, HeadingsAndPlainTexts(convs[k].file, 1))

\* the conversion of the end-to-end scenario has ended well
C8_Witness ==
  \E k \in DOMAIN convs :
    /\ convs[k].pc = "done"
    /\ convs[k].file.pages = <<PageHelloWorld, PageGoodbye>>

(***************************************************************************)
(* C9: the page assembler puts a paragraph break (two newlines) before the *)
(* k-th text item, k >= 2, exactly when the baseline of the item before it *)
(* is not zero and the two baselines differ by more than 20, and never     *)
(* before the first item.                                                  *)
(***************************************************************************)
\* the rule of the claim; positive tells the reading of "the baseline is set"
BreakBefore(items, k, positive) ==
  /\ k >= 2
  /\ IF positive THEN items[k - 1].y > 0 ELSE items[k - 1].y # 0
  /\ Abs(items[k - 1].y - items[k].y) > ParagraphGap

RECURSIVE TextByRule(_, _, _)
\* the page text the rule gives for the items from the k-th on
TextByRule(items, k, positive) ==
  IF k > Len(items) THEN <<>>
  ELSE (IF BreakBefore(items, k, positive) THEN <<NL, NL>> ELSE <<>>)
         \o items[k].str \o <<SP>> \o TextByRule(items, k + 1, positive)

\* the runs that have assembled a page, which is page i - 1
Assembling == {k \in DOMAIN convs : convs[k].i >= 2}

C9_BreakWhenBaselineNotZero ==
  \A k \in Assembling :
    convs[k].pageText
      = TextByRule(convs[k].file.pages[convs[k].i - 1], 1, FALSE)

\* C9 as amended: the break stands before the k-th item, k >= 2, exactly when
\* the baseline of the item before it is greater than zero and the two
\* baselines differ by more than 20, and never before the first item
C9_BreakWhenBaselinePositive ==
  \A k \in Assembling :
    convs[k].pageText
      = TextByRule(convs[k].file.pages[convs[k].i - 1], 1, TRUE)

\* a page with the baselines 100, 98, 40 has been assembled
C9_Witness ==
  \E k \in Assembling :
    LET items == convs[k].file.pages[convs[k].i - 1]
    IN /\ Len(items) = 3
       /\ <<items[1].y, items[2].y, items[3].y>> = <<100, 98, 40>>

(***************************************************************************)
(* C10: every line of the input, after the collapse of its whitespace,     *)
(* that holds uppercase letters and spaces only and is 11 characters long  *)
(* or longer is rewritten to the heading line "### " and the trimmed line. *)
(***************************************************************************)
\* the input after the two whitespace passes
Collapsed(s) == CollapseNewlines(CollapseSpaces(s))

\* a line the heading heuristic is to rewrite
AllCapsLine(l) ==
  /\ Len(l) >= HeadingMin + 1
  /\ \A i \in 1..Len(l) : l[i] \in Upper \cup {SP}

C10_CapsLinesBecomeHeadings ==
  nApplied = 1 =>
    \A l \in Lines(Collapsed(nInput)) :
      AllCapsLine(l) => (<<"#", "#", "#", SP>> \o Trim(l)) \in Lines(nOutput)

(***************************************************************************)
(* C11: a line that is shorter than 11 characters, or that holds a         *)
(* character other than uppercase letters and spaces, is never prefixed    *)
(* with "### ": in the output for an input without '#', every line that    *)
(* starts with "### " is the heading of a line of the input that holds     *)
(* uppercase letters and spaces only and is 11 characters long or longer.  *)
(***************************************************************************)
\* the prefix the heading heuristic writes
HeadingPrefix == <<"#", "#", "#", SP>>

\* s starts with pre
StartsWith(s, pre) == OccursAt(s, pre, 1)

\* s without its first n characters
After(s, n) == SubSeq(s, n + 1, Len(s))

C11_OtherLinesNotHeadings ==
  (nApplied = 1 /\ \A i \in 1..Len(nInput) : nInput[i] # "#") =>
    \A o \in Lines(nOutput) :
      StartsWith(o, HeadingPrefix) =>
        \E l \in Lines(Collapsed(nInput)) :
          AllCapsLine(l) /\ Trim(l) = Trim(After(o, Len(HeadingPrefix)))

(***************************************************************************)
(* C12: in the output of cleanMarkdown every heading marker (one to six    *)
(* '#' and a space) that starts a line other than the first is preceded by *)
(* exactly one blank line: two newlines stand before it, and no third.     *)
(***************************************************************************)
\* a heading marker starts the line at position i of s
HeadingMarkerAt(s, i) ==
  LET h == RunLen(s, i, {"#"})
  IN /\ AtLineStart(s, i)
     /\ h >= 1 /\ h <= 6
     /\ i + h <= Len(s) /\ s[i + h] = SP

\* exactly one blank line stands before the line that starts at position i
OneBlankLineBefore(s, i) ==
  /\ i >= 3
  /\ s[i - 1] = NL /\ s[i - 2] = NL
  /\ i >= 4 => s[i - 3] # NL

\* every heading marker of s that starts a line other than the first has
\* exactly one blank line before it
BlankLineBeforeHeadings(s) ==
  \A i \in 2..Len(s) : HeadingMarkerAt(s, i) => OneBlankLineBefore(s, i)

\* of every output of the normalizer, and of every document a conversion
\* displays (the output of the normalizer and the trailer, which holds no '#')
C12_OneBlankLineBeforeHeading ==
  /\ nApplied = 1 => BlankLineBeforeHeadings(nOutput)
  /\ \A k \in DOMAIN convs :
       convs[k].pc = "done" => BlankLineBeforeHeadings(convs[k].result)

(***************************************************************************)
(* C13: in the output of cleanMarkdown every heading line that is not the  *)
(* last line is followed by exactly one blank line: two newlines stand     *)
(* after it, and no third.                                                 *)
(***************************************************************************)
\* exactly one blank line stands after the line that ends before position e
OneBlankLineAfter(s, e) ==
  /\ e + 1 <= Len(s)
  /\ s[e] = NL /\ s[e + 1] = NL
  /\ e + 2 <= Len(s) => s[e + 2] # NL

\* every line of s that starts with a heading marker and holds a text after
\* it, and is not the last line, has exactly one blank line after it
BlankLineAfterHeadings(s) ==
  \A i \in 1..Len(s) :
    LET h == RunLen(s, i, {"#"})
        e == i + RunLenNot(s, i, {NL})
    IN (HeadingMarkerAt(s, i) /\ e > i + h + 1 /\ e <= Len(s))
         => OneBlankLineAfter(s, e)

\* of every output of the normalizer, and of every document a conversion
\* displays (there the trailer follows the last line after one blank line)
C13_OneBlankLineAfterHeading ==
  /\ nApplied = 1 => BlankLineAfterHeadings(nOutput)
  /\ \A k \in DOMAIN convs :
       convs[k].pc = "done" => BlankLineAfterHeadings(convs[k].result)

(***************************************************************************)
(* C14: a line that starts with one glyph of the recognized bullet set,    *)
(* whitespace and a text is rewritten so that it starts with "- ", with    *)
(* the rest of the line unchanged: the output holds the line "- " and that *)
(* text.                                                                   *)
(***************************************************************************)
\* the recognized bullet glyphs: U+2022, U+25CF, U+25CB, U+25E6, U+25AA,
\* U+25AB and the hyphen
RecognizedBullets ==
  {BULLET, "U+25CF", "U+25CB", "U+25E6", "U+25AA", "U+25AB", "-"}

\* a line of the collapsed input made of a bullet glyph, a space and a text
\* that starts with a character other than whitespace
BulletLine(l) ==
  /\ Len(l) >= 3
  /\ l[1] \in RecognizedBullets
  /\ l[2] = SP
  /\ l[3] \notin WS

\* the lines of s without the whitespace at their ends
TrimmedLines(s) == {Trim(l) : l \in Lines(s)}

C14_BulletGlyphsCanonical ==
  nApplied = 1 =>
    \A l \in Lines(Collapsed(nInput)) :
      BulletLine(l) => Trim(<<"-", SP>> \o After(l, 2)) \in TrimmedLines(nOutput)

(***************************************************************************)
(* C15: a line that starts with digits, a period and whitespace is         *)
(* rewritten to the same digits, a period, one space and the rest of the   *)
(* line unchanged: the output holds that line.                             *)
(***************************************************************************)
\* a line of the collapsed input that starts with digits, a period and a space
NumberedLine(l) ==
  LET d == RunLen(l, 1, Digit)
  IN d >= 1 /\ d + 2 <= Len(l) /\ l[d + 1] = "." /\ l[d + 2] = SP

C15_NumberedLinesKept ==
  nApplied = 1 =>
    \A l \in Lines(Collapsed(nInput)) :
      NumberedLine(l) => Trim(l) \in TrimmedLines(nOutput)

(***************************************************************************)
(* C16: the normalizer is total: for every input, the empty one, the ones  *)
(* of whitespace only, the malformed ones and its own outputs among them,  *)
(* cleanMarkdown returns a string (the empty string for an input without   *)
(* text) and raises no error; a conversion fails only when a call of the   *)
(* parsing collaborator rejects, never because of the normalizer.          *)
(***************************************************************************)
\* the characters of the model
Chars ==
  WS \cup Upper \cup Lower \cup Digit \cup BulletClass \cup RecognizedBullets
    \cup {"#", "."}

\* s is a string: a sequence of characters
IsString(s) == s \in Seq(Chars)

\* s holds whitespace only, or nothing
Blank(s) == \A i \in 1..Len(s) : s[i] \in WS

C16_NormalizerTotal ==
  /\ nApplied >= 1 =>
       /\ IsString(nOutput)
       /\ Blank(nInput) => nOutput = <<>>
  /\ \A k \in DOMAIN convs :
       convs[k].pc = "failed" =>
         /\ convs[k].file.failAt \in Ops
         /\ convs[k].log[Len(convs[k].log)][1] = "throw"

\* an input of whitespace only, a newline in it, has been normalized
C16_Witness ==
  /\ nApplied = 1
  /\ Len(nInput) >= 2
  /\ Blank(nInput)
  /\ \E i \in 1..Len(nInput) : nInput[i] = NL
  /\ nOutput = <<>>

(***************************************************************************)
(* C17: the selection of a file of type application/pdf starts a fresh     *)
(* run: in that step fileName becomes the name of the file, text and error *)
(* become empty and loading becomes true, and the run it starts has not    *)
(* called the parsing collaborator yet.                                    *)
(***************************************************************************)
\* this step is the selection of a file whose type is application/pdf
AcceptanceStep ==
  /\ Len(sels') = Len(sels) + 1
  /\ sels'[Len(sels')].type = PdfType

\* the calls of the parsing collaborator in log
ParserCalls(log) ==
  SelectSeq(log, LAMBDA e : e[1] = "call"
                            /\ e[2] \in {"getDocument", "getPage",
                                         "getTextContent"})

C17_AcceptanceStartsFreshRun ==
  [][AcceptanceStep =>
       LET k == Len(sels')
       IN /\ fileName' = sels'[k].name
          /\ text' = <<>>
          /\ error' = <<>>
          /\ loading' = TRUE
          /\ k \notin DOMAIN convs
          /\ k \in DOMAIN convs'
          /\ convs'[k].file = sels'[k]
          /\ ParserCalls(convs'[k].log) = <<>>]_vars

\* a PDF has been selected after a conversion has ended well, its run has
\* not called the parsing collaborator yet, and the earlier output is gone
C17_Witness ==
  /\ sels # <<>>
  /\ Len(sels) \in DOMAIN convs
  /\ convs[Len(sels)].pc = "arrayBuffer"
  /\ ParserCalls(convs[Len(sels)].log) = <<>>
  /\ \E j \in DOMAIN convs : j < Len(sels) /\ convs[j].pc = "done"
  /\ fileName = sels[Len(sels)].name
  /\ text = <<>>
  /\ error = <<>>
  /\ loading

(***************************************************************************)
(* C18: while a conversion that was started has not finished, the loading  *)
(* flag is true.                                                           *)
(***************************************************************************)
C18_LoadingWhileRunning == Running # {} => loading

(***************************************************************************)
(* C19: a displayed output that is not empty is the result of the          *)
(* conversion of the file selected and accepted last, the file whose name  *)
(* fileName holds; no result of an earlier selection stands under the name *)
(* of a later file.                                                        *)
(***************************************************************************)
\* the runs that have ended well for a file of the name fileName holds
DoneUnderName ==
  {k \in DOMAIN convs :
     convs[k].pc = "done" /\ convs[k].file.name = fileName}

C19_OutputOfNamedFile ==
  text # <<>> => \E k \in DoneUnderName : text = convs[k].result

(***************************************************************************)
(* C20: when every call of the parsing collaborator returns or rejects in  *)
(* the end, every conversion that is started finishes in the end, well or  *)
(* not; the step in which it finishes sets loading to false; and loading   *)
(* is false whenever no conversion that was started is still under way.    *)
(***************************************************************************)
\* the k-th run of handleFile has finished
Finished(k) == k \in DOMAIN convs /\ convs[k].pc \in {"done", "failed"}

\* the k-th run of handleFile finishes in this step
FinishStep(k) ==
  /\ k \in DOMAIN convs
  /\ convs[k].pc \in Ops
  /\ convs'[k].pc \in {"done", "failed"}

C20_ConversionsFinish ==
  /\ \A k \in 1..MaxSelections : (k \in DOMAIN convs) ~> Finished(k)
  /\ [][\A k \in 1..MaxSelections : FinishStep(k) => loading' = FALSE]_vars
  /\ [](Running = {} => loading = FALSE)

\* two conversions were started, one has ended well and one has failed, and
\* loading is false
C20_Witness ==
  /\ \E k \in DOMAIN convs : convs[k].pc = "done"
  /\ \E k \in DOMAIN convs : convs[k].pc = "failed"
  /\ Running = {}
  /\ loading = FALSE

(***************************************************************************)
(* C21: the rejection of a file that is no PDF changes the error message   *)
(* only: fileName, text and loading are after the step what they were      *)
(* before it.                                                              *)
(***************************************************************************)
C21_RejectionKeepsTheRest ==
  [][RejectionStep =>
       (fileName' = fileName /\ text' = text /\ loading' = loading)]_vars

\* a file that is no PDF was selected last, the error is displayed, and the
\* name and the output of the conversion that ended before are still there
C21_Witness ==
  /\ sels # <<>>
  /\ sels[Len(sels)].type # PdfType
  /\ error = InvalidTypeError
  /\ \E k \in DOMAIN convs :
       /\ convs[k].pc = "done"
       /\ text = convs[k].result
       /\ fileName = convs[k].file.name
  /\ loading = FALSE

(***************************************************************************)
(* C22: the error message and the output text are never both non-empty: no *)
(* error is displayed together with the result of a conversion.            *)
(***************************************************************************)
C22_ErrorOrOutput == ~(error # <<>> /\ text # <<>>)

(***************************************************************************)
(* C23: the bullet pass and the numbered-list pass act within a line: they *)
(* remove no newline and join no line with the text of the line after it,  *)
(* so a text whose every newline is followed by the text of a line has as  *)
(* many lines after the two passes as before them.                         *)
(***************************************************************************)
\* how many newlines s holds
NewlineCount(s) == Cardinality({i \in 1..Len(s) : s[i] = NL})

\* every newline of s is followed by a character that is no whitespace
TextAfterNewlines(s) ==
  \A i \in 1..Len(s) : s[i] = NL => (i < Len(s) /\ s[i + 1] \notin WS)

C23_ListPassesKeepLines ==
  (nApplied = 1 /\ TextAfterNewlines(Collapsed(nInput))) =>
    NewlineCount(Numbers(Bullets(Collapsed(nInput))))
      = NewlineCount(Collapsed(nInput))

(***************************************************************************)
(* C24: the output of cleanMarkdown holds no tab and no two spaces in a    *)
(* row: no pass after the collapse of the horizontal whitespace brings a   *)
(* run of it back.                                                         *)
(***************************************************************************)
\* s holds a tab, or two spaces next to each other
HasBlankRun(s) ==
  \/ \E i \in 1..Len(s) : s[i] = TAB
  \/ \E i \in 1..(Len(s) - 1) : s[i] = SP /\ s[i + 1] = SP

C24_NoBlankRuns == nApplied >= 1 => ~HasBlankRun(nOutput)

\* an input with a run of two spaces or tabs between two characters of text
\* has been normalized
C24_Witness ==
  /\ nApplied = 1
  /\ \E i \in 2..(Len(nInput) - 2) :
       /\ nInput[i - 1] \notin WS
       /\ nInput[i] \in {SP, TAB}
       /\ nInput[i + 1] \in {SP, TAB}
       /\ nInput[i + 2] \notin WS
  /\ nOutput # <<>>

====
